---- MODULE Spec2Model ----
(***************************************************************************)
(* A model of capture.py: the main thread (the supervisor) builds one      *)
(* GStreamer pipeline per camera index, opens one MCAP writer, starts one  *)
(* capture_loop thread per appsink, waits until every thread has ended or  *)
(* a KeyboardInterrupt arrives, leaves the `with` block (which closes the  *)
(* writer) and tears the pipelines down.  Each capture_loop thread pulls   *)
(* samples from its appsink, derives a frame_id and logs a CompressedVideo *)
(* message to its own channel.                                             *)
(*                                                                         *)
(* The GStreamer and Foxglove libraries are the environment: whether       *)
(* parse_launch, start_server, open_mcap, a channel constructor,           *)
(* pull-sample or channel.log raise, and what a pulled sample carries, are *)
(* nondeterministic choices.                                               *)
(***************************************************************************)
EXTENDS Integers, Sequences, FiniteSets, TLC

\* Bounds: the number of buffers all appsinks together deliver, and how many
\* of them carry a pts or a dts.
MaxFrames == 3
MaxTimed == 1

\* args.camera_index (its default), and Gst.CLOCK_TIME_NONE (2^64 - 1 in
\* GStreamer, read here as the 64-bit pattern of -1: a value no valid
\* timestamp takes).
camera_index == 0
CLOCK_TIME_NONE == -1

\* The timestamps a buffer may carry: a valid pts and a valid dts differ, so
\* that an identifier built from the wrong one is told apart.
PtsValues == {CLOCK_TIME_NONE, 1000}
DtsValues == {CLOCK_TIME_NONE, 2000}

\* The camera indices --dual can configure.
Cams == {camera_index, camera_index + 1}

VARIABLES
    dual,             \* args.dual
    sup_pc,           \* the main thread's position
    i,                \* the index of the main thread's current for loop
    pipelines,        \* list of idx whose pipeline was created
    appsinks,         \* list of idx whose appsink was created
    pstate,           \* idx -> state of its pipeline: "none", "PLAYING", "NULL"
    teardowns,        \* idx -> number of set_state(Gst.State.NULL) calls on it
    errors,           \* idx for which "Failed to create pipeline" was printed
    writer,           \* the MCAP writer: "unopened", "open", "closed", "failed"
    opens,            \* number of calls of foxglove.open_mcap
    closes,           \* number of times the writer was closed
    channels,         \* idx -> topic, for the channels created
    stop_event,       \* threading.Event
    threads,          \* list of idx whose thread was started
    abandoned,        \* idx whose join(timeout=1.0) expired
    interrupted,      \* a KeyboardInterrupt was caught
    exc,              \* the exception in flight in the main thread
    unexpected,       \* "Unexpected error" was printed
    exit_code,        \* the process's exit status, -1 while it runs
    wpc,              \* idx -> position of its capture_loop thread
    frame_seq_local,  \* idx -> the thread's local counter
    img_msg,          \* idx -> the message the thread is about to log
    pulled,           \* idx -> the frames (samples with a buffer) pulled
    logged,           \* idx -> the messages handed to channel.log
    log_failed,       \* idx for which "Failed to log frame" was printed
    pull_raised,      \* idx whose pull-sample raised
    mcap              \* the messages the MCAP writer recorded, in order

supVars == <<dual, sup_pc, i, pipelines, appsinks, pstate, teardowns, errors, writer,
             opens, closes, channels, stop_event, threads, abandoned, interrupted, exc,
             unexpected, exit_code>>
workerVars == <<wpc, frame_seq_local, img_msg, pulled, logged, log_failed, pull_raised,
               mcap>>
vars == <<supVars, workerVars>>

\* indices = [camera_index, camera_index + 1] if args.dual else [camera_index]
Indices == IF dual THEN <<camera_index, camera_index + 1>> ELSE <<camera_index>>

\* Variant: the topic is built from args.camera_index, not from idx.
TopicOfFirst(idx) == "/camera/" \o ToString(camera_index) \o "/image/compressed"

\* topic = f"/camera/{idx}/image/compressed"
Topic(idx) == "/camera/" \o ToString(idx) \o "/image/compressed"

NoMsg == [topic |-> "", frame_id |-> "", data |-> <<>>]

Range(s) == {s[k] : k \in 1..Len(s)}

Count(s, x) == Cardinality({k \in 1..Len(s) : s[k] = x})

TotalFrames == Len(pulled[camera_index]) + Len(pulled[camera_index + 1])

\* A buffer with neither timestamp.
Untimed(f) == f.pts = CLOCK_TIME_NONE /\ f.dts = CLOCK_TIME_NONE

TimedIn(s) == Cardinality({k \in 1..Len(s) : ~Untimed(s[k])})

TotalTimed == TimedIn(pulled[camera_index]) + TimedIn(pulled[camera_index + 1])

Init ==
    /\ dual \in BOOLEAN
    /\ sup_pc = "make_pipelines"
    /\ i = 1
    /\ pipelines = <<>>
    /\ appsinks = <<>>
    /\ pstate = [c \in Cams |-> "none"]
    /\ teardowns = [c \in Cams |-> 0]
    /\ errors = <<>>
    /\ writer = "unopened"
    /\ opens = 0
    /\ closes = 0
    /\ channels = <<>>
    /\ stop_event = FALSE
    /\ threads = <<>>
    /\ abandoned = {}
    /\ interrupted = FALSE
    /\ exc = "none"
    /\ unexpected = FALSE
    /\ exit_code = -1
    /\ wpc = [c \in Cams |-> "not_started"]
    /\ frame_seq_local = [c \in Cams |-> 0]
    /\ img_msg = [c \in Cams |-> NoMsg]
    /\ pulled = [c \in Cams |-> <<>>]
    /\ logged = [c \in Cams |-> <<>>]
    /\ log_failed = {}
    /\ pull_raised = {}
    /\ mcap = <<>>

(***************************************************************************)
(* The main thread                                                         *)
(***************************************************************************)

\* The position after the last iteration of a for loop over n elements.
LoopNext(k, n, here, after) == IF k + 1 > n THEN after ELSE here

\* Variant: `break` in place of `continue` ("stop starting more").
NextIndexBreak(k, n) == n + 1

\* for idx in indices: a failed make_pipeline is skipped with `continue`.
NextIndexAfterFailure(k, n) == k + 1

\* One iteration of `for idx in indices`: make_pipeline(idx) either returns
\* (p, sink) with the pipeline PLAYING, or prints the failure and returns
\* (None, None).
MakePipeline ==
    /\ sup_pc = "make_pipelines"
    /\ i <= Len(Indices)
    /\ \E ok \in BOOLEAN :
        LET idx == Indices[i] IN
        IF ok
        THEN /\ pipelines' = Append(pipelines, idx)
             /\ appsinks' = Append(appsinks, idx)
             /\ pstate' = [pstate EXCEPT ![idx] = "PLAYING"]
             /\ i' = i + 1
             /\ UNCHANGED errors
        ELSE /\ errors' = Append(errors, idx)
             /\ i' = NextIndexAfterFailure(i, Len(Indices))
             /\ UNCHANGED <<pipelines, appsinks, pstate>>
    /\ UNCHANGED <<dual, sup_pc, teardowns, writer, opens, closes, channels,
                   stop_event, threads, abandoned, interrupted, exc, unexpected,
                   exit_code, workerVars>>

\* Variant: a failed open is swallowed and the session goes on.
AfterOpenSwallowed(r) == "channels"

\* Where the main thread goes after foxglove.Context(), start_server and
\* open_mcap: into the with block, or to the except clause.
AfterOpen(r) == IF r = "ok" THEN "channels" ELSE "except"

\* ctx = foxglove.Context(); server = foxglove.start_server(context=ctx);
\* with foxglove.open_mcap(mcap_file, context=ctx) as writer:
OpenMcap ==
    /\ sup_pc = "make_pipelines"
    /\ i > Len(Indices)
    /\ \E r \in {"ok", "server_failed", "open_failed"} :
        /\ sup_pc' = AfterOpen(r)
        /\ writer' = CASE r = "ok" -> "open"
                       [] r = "open_failed" -> "failed"
                       [] OTHER -> "unopened"
        /\ opens' = IF r = "server_failed" THEN opens ELSE opens + 1
        /\ exc' = IF r = "ok" THEN "none" ELSE "Exception"
    /\ i' = 1
    /\ UNCHANGED <<dual, pipelines, appsinks, pstate, teardowns, errors, closes,
                   channels, stop_event, threads, abandoned, interrupted, unexpected,
                   exit_code, workerVars>>

\* channels = {}; for idx, _ in appsinks: channels[idx] = CompressedVideoChannel(...)
\* stop_event = threading.Event(); threads = []
\* A constructor that raises leaves the with block with the exception.
CreateChannels ==
    /\ sup_pc = "channels"
    /\ \/ /\ channels' = [idx \in Range(appsinks) |-> Topic(idx)]
          /\ sup_pc' = "start_threads"
          /\ UNCHANGED exc
       \/ /\ appsinks # <<>>
          /\ exc' = "Exception"
          /\ sup_pc' = "with_exit"
          /\ UNCHANGED channels
    /\ i' = 1
    /\ UNCHANGED <<dual, pipelines, appsinks, pstate, teardowns, errors, writer,
                   opens, closes, stop_event, threads, abandoned, interrupted,
                   unexpected, exit_code, workerVars>>

\* One iteration of `for idx, sink in appsinks`: a thread is started unless
\* the channel or the sink is missing.
StartThread ==
    /\ sup_pc = "start_threads"
    /\ i <= Len(appsinks)
    /\ LET idx == appsinks[i] IN
        IF idx \notin DOMAIN channels \/ pstate[idx] = "none"
        THEN UNCHANGED <<threads, wpc>>
        ELSE /\ threads' = Append(threads, idx)
             /\ wpc' = [wpc EXCEPT ![idx] = "check"]
    /\ i' = i + 1
    /\ UNCHANGED <<dual, sup_pc, pipelines, appsinks, pstate, teardowns, errors,
                   writer, opens, closes, channels, stop_event, abandoned,
                   interrupted, exc, unexpected, exit_code, frame_seq_local, img_msg,
                   pulled, logged, log_failed, pull_raised, mcap>>

\* print(f"Started {len(threads)} capture thread(s)"), and into the wait loop.
StartedThreads ==
    /\ sup_pc = "start_threads"
    /\ i > Len(appsinks)
    /\ sup_pc' = "wait"
    /\ UNCHANGED <<dual, i, pipelines, appsinks, pstate, teardowns, errors, writer,
                   opens, closes, channels, stop_event, threads, abandoned,
                   interrupted, exc, unexpected, exit_code, workerVars>>

\* t.is_alive()
IsAlive(idx) == wpc[idx] # "stopped"

\* while any(t.is_alive() for t in threads): time.sleep(0.1)
\* The loop ends once no thread is alive.
WaitEnds ==
    /\ sup_pc = "wait"
    /\ \A idx \in Range(threads) : ~IsAlive(idx)
    /\ sup_pc' = "with_exit"
    /\ UNCHANGED <<dual, i, pipelines, appsinks, pstate, teardowns, errors, writer,
                   opens, closes, channels, stop_event, threads, abandoned,
                   interrupted, exc, unexpected, exit_code, workerVars>>

\* except KeyboardInterrupt: print; stop_event.set(); then the joins.
KeyboardInterrupt ==
    /\ sup_pc = "wait"
    /\ stop_event' = TRUE
    /\ interrupted' = TRUE
    /\ sup_pc' = IF threads = <<>> THEN "with_exit" ELSE "join"
    /\ i' = 1
    /\ UNCHANGED <<dual, pipelines, appsinks, pstate, teardowns, errors, writer,
                   opens, closes, channels, threads, abandoned, exc, unexpected,
                   exit_code, workerVars>>

\* t.join(timeout=1.0) returns because the thread has ended.
JoinReturns ==
    /\ sup_pc = "join"
    /\ ~IsAlive(threads[i])
    /\ sup_pc' = LoopNext(i, Len(threads), "join", "with_exit")
    /\ i' = i + 1
    /\ UNCHANGED <<dual, pipelines, appsinks, pstate, teardowns, errors, writer,
                   opens, closes, channels, stop_event, threads, abandoned,
                   interrupted, exc, unexpected, exit_code, workerVars>>

\* Variant: t.join() without a timeout never returns for a live thread.
JoinWithoutTimeout ==
    /\ sup_pc = "join"
    /\ IsAlive(threads[i])
    /\ FALSE
    /\ UNCHANGED vars

\* t.join(timeout=1.0) returns because the second has passed: the thread is
\* left running.
JoinTimeout ==
    /\ sup_pc = "join"
    /\ IsAlive(threads[i])
    /\ abandoned' = abandoned \cup {threads[i]}
    /\ sup_pc' = LoopNext(i, Len(threads), "join", "with_exit")
    /\ i' = i + 1
    /\ UNCHANGED <<dual, pipelines, appsinks, pstate, teardowns, errors, writer,
                   opens, closes, channels, stop_event, threads, interrupted, exc,
                   unexpected, exit_code, workerVars>>

\* Variant: no context manager, but a writer.close() as the block's last
\* statement, which an exception skips.
CloseAtBlockEnd ==
    /\ sup_pc = "with_exit"
    /\ writer' = IF exc = "none" THEN "closed" ELSE writer
    /\ closes' = IF exc = "none" THEN closes + 1 ELSE closes
    /\ sup_pc' = IF exc = "none" THEN "finally" ELSE "except"
    /\ i' = 1
    /\ UNCHANGED <<dual, pipelines, appsinks, pstate, teardowns, errors, opens,
                   channels, stop_event, threads, abandoned, interrupted, exc,
                   unexpected, exit_code, workerVars>>

\* The end of `with foxglove.open_mcap(...) as writer`, reached normally or
\* by an exception: the context manager closes the writer.
WithExit ==
    /\ sup_pc = "with_exit"
    /\ writer' = "closed"
    /\ closes' = closes + 1
    /\ sup_pc' = IF exc = "none" THEN "finally" ELSE "except"
    /\ i' = 1
    /\ UNCHANGED <<dual, pipelines, appsinks, pstate, teardowns, errors, opens,
                   channels, stop_event, threads, abandoned, interrupted, exc,
                   unexpected, exit_code, workerVars>>

\* except Exception as e: print(f"Unexpected error: {e}"); raise
ExceptClause ==
    /\ sup_pc = "except"
    /\ unexpected' = TRUE
    /\ sup_pc' = "finally"
    /\ i' = 1
    /\ UNCHANGED <<dual, pipelines, appsinks, pstate, teardowns, errors, writer,
                   opens, closes, channels, stop_event, threads, abandoned,
                   interrupted, exc, exit_code, workerVars>>

\* The process's exit status: 0 at the module's end, 1 when the re-raised
\* exception ends it.
ExitStatus(e) == IF e = "none" THEN 0 ELSE 1

\* p.set_state(Gst.State.NULL), for the pipelines of the list.
StateAfterTearDown(old, mine) == IF mine THEN "NULL" ELSE old

\* Variant: the loop stands at the end of the try block, not in a finally
\* clause: an exception skips it.
TearDownAtBlockEnd ==
    /\ sup_pc = "finally"
    /\ pstate' = [c \in Cams |->
                     IF exc = "none"
                     THEN StateAfterTearDown(pstate[c], c \in Range(pipelines))
                     ELSE pstate[c]]
    /\ teardowns' = [c \in Cams |->
                        IF exc = "none" THEN teardowns[c] + Count(pipelines, c)
                        ELSE teardowns[c]]
    /\ sup_pc' = "done"
    /\ exit_code' = ExitStatus(exc)
    /\ UNCHANGED <<dual, i, pipelines, appsinks, errors, writer, opens, closes,
                   channels, stop_event, threads, abandoned, interrupted, exc,
                   unexpected, workerVars>>

\* finally: for idx, p in pipelines: p.set_state(Gst.State.NULL);
\* print("Recording saved to", mcap_file); then the module ends, or the
\* re-raised exception ends it.  The threads are daemon threads: they end
\* with the process.
TearDown ==
    /\ sup_pc = "finally"
    /\ pstate' = [c \in Cams |-> StateAfterTearDown(pstate[c], c \in Range(pipelines))]
    /\ teardowns' = [c \in Cams |-> teardowns[c] + Count(pipelines, c)]
    /\ sup_pc' = "done"
    /\ exit_code' = ExitStatus(exc)
    /\ UNCHANGED <<dual, i, pipelines, appsinks, errors, writer, opens, closes,
                   channels, stop_event, threads, abandoned, interrupted, exc,
                   unexpected, workerVars>>

(***************************************************************************)
(* capture_loop(idx, sink, channel)                                        *)
(***************************************************************************)

\* A daemon thread runs only while the process does.
ProcessAlive == sup_pc # "done"

\* Variant: `while True:`, the signal is never looked at.
AfterLoopCheckBlind(stop) == "pull"

\* while not stop_event.is_set():
AfterLoopCheck(stop) == IF stop THEN "stopped" ELSE "pull"

LoopCheck(c) ==
    /\ ProcessAlive
    /\ wpc[c] = "check"
    /\ wpc' = [wpc EXCEPT ![c] = AfterLoopCheck(stop_event)]
    /\ UNCHANGED <<supVars, frame_seq_local, img_msg, pulled, logged,
                   log_failed, pull_raised, mcap>>

\* Variant: the counter is incremented for every buffer.
IdentifyCountsAll(pts, dts, counter) ==
    IF pts # CLOCK_TIME_NONE
    THEN [frame_id |-> "pts:" \o ToString(pts), counter |-> counter + 1]
    ELSE IF dts # CLOCK_TIME_NONE
         THEN [frame_id |-> "dts:" \o ToString(dts), counter |-> counter + 1]
         ELSE [frame_id |-> "seq:" \o ToString(counter + 1), counter |-> counter + 1]

\* Variant: dts is preferred to pts.
IdentifyDtsFirst(pts, dts, counter) ==
    IF dts # CLOCK_TIME_NONE
    THEN [frame_id |-> "dts:" \o ToString(dts), counter |-> counter]
    ELSE IF pts # CLOCK_TIME_NONE
         THEN [frame_id |-> "pts:" \o ToString(pts), counter |-> counter]
         ELSE [frame_id |-> "seq:" \o ToString(counter + 1), counter |-> counter + 1]

\* The frame_id of a buffer and the counter after it: pts if valid, else dts
\* if valid, else the incremented counter.
Identify(pts, dts, counter) ==
    IF pts # CLOCK_TIME_NONE
    THEN [frame_id |-> "pts:" \o ToString(pts), counter |-> counter]
    ELSE IF dts # CLOCK_TIME_NONE
         THEN [frame_id |-> "dts:" \o ToString(dts), counter |-> counter]
         ELSE [frame_id |-> "seq:" \o ToString(counter + 1), counter |-> counter + 1]

\* Variant: the exception is swallowed and the loop goes on.
AfterPullRaisesContinue == "check"

\* except Exception: break
AfterPullRaises == "stopped"

\* sink.emit("pull-sample") raises.
PullRaises(c) ==
    /\ ProcessAlive
    /\ wpc[c] = "pull"
    /\ pull_raised' = pull_raised \cup {c}
    /\ wpc' = [wpc EXCEPT ![c] = AfterPullRaises]
    /\ UNCHANGED <<supVars, frame_seq_local, img_msg, pulled, logged, log_failed, mcap>>

\* sample is None: time.sleep(0.001) follows.
PullEmpty(c) ==
    /\ ProcessAlive
    /\ wpc[c] = "pull"
    /\ wpc' = [wpc EXCEPT ![c] = "sleep"]
    /\ UNCHANGED <<supVars, frame_seq_local, img_msg, pulled, logged,
                   log_failed, pull_raised, mcap>>

\* A sample whose get_buffer() is None.
PullNoBuffer(c) ==
    /\ ProcessAlive
    /\ wpc[c] = "pull"
    /\ pstate[c] = "PLAYING"
    /\ wpc' = [wpc EXCEPT ![c] = "no_buffer"]
    /\ UNCHANGED <<supVars, frame_seq_local, img_msg, pulled, logged, log_failed,
                   pull_raised, mcap>>

\* Variant: the idle wait is taken for a sample without a buffer too.
AfterNoBufferSleep == "sleep"

\* if buf is None: continue
AfterNoBuffer == "check"

SkipNoBuffer(c) ==
    /\ ProcessAlive
    /\ wpc[c] = "no_buffer"
    /\ wpc' = [wpc EXCEPT ![c] = AfterNoBuffer]
    /\ UNCHANGED <<supVars, frame_seq_local, img_msg, pulled, logged, log_failed,
                   pull_raised, mcap>>

\* Variant: one module-level counter that every thread advances.
StoreCounterShared(counters, c, n) == [x \in DOMAIN counters |-> n]

\* frame_seq_local is a local of capture_loop: each thread has its own.
StoreCounter(counters, c, n) == [counters EXCEPT ![c] = n]

\* A sample with a buffer: its data is extracted, its frame_id derived and
\* the CompressedVideo message built.  The data of the n-th buffer of camera
\* c is <<c, n>>.
PullFrame(c) ==
    /\ ProcessAlive
    /\ wpc[c] = "pull"
    /\ pstate[c] = "PLAYING"
    /\ TotalFrames < MaxFrames
    /\ \E pts \in PtsValues, dts \in DtsValues :
        /\ (pts # CLOCK_TIME_NONE \/ dts # CLOCK_TIME_NONE) => TotalTimed < MaxTimed
        /\ LET data == <<c, Len(pulled[c]) + 1>>
               id == Identify(pts, dts, frame_seq_local[c])
           IN  /\ pulled' = [pulled EXCEPT ![c] =
                                 Append(@, [pts |-> pts, dts |-> dts, data |-> data])]
               /\ frame_seq_local' = StoreCounter(frame_seq_local, c, id.counter)
               /\ img_msg' = [img_msg EXCEPT ![c] =
                                 [topic |-> channels[c], frame_id |-> id.frame_id,
                                  data |-> data]]
    /\ wpc' = [wpc EXCEPT ![c] = "log"]
    /\ UNCHANGED <<supVars, logged, log_failed, pull_raised, mcap>>

\* time.sleep(0.001); continue
Sleep(c) ==
    /\ ProcessAlive
    /\ wpc[c] = "sleep"
    /\ wpc' = [wpc EXCEPT ![c] = "check"]
    /\ UNCHANGED <<supVars, frame_seq_local, img_msg, pulled, logged,
                   log_failed, pull_raised, mcap>>

\* What channel.log may do: record the message or raise while the writer is
\* open, raise once it is closed ("If logging fails (writer closed etc)").
LogOutcomes(w) == IF w = "open" THEN {"ok", "raise"} ELSE {"raise"}

\* Variant: the newest message is put first.
RecordFirst(file, msg) == <<msg>> \o file

\* What the writer holds after it recorded msg.
Record(file, msg) == Append(file, msg)

\* Variant: the handler also sets the signal, stopping every thread.
StopEventSetOnLogFailure(stop) == TRUE

\* The cancellation signal after a thread's channel.log raised: the handler
\* prints and breaks, and leaves the signal alone.
StopEventAfterLogFailure(stop) == stop

\* Variant: the handler is `pass`: nothing is printed.
LogFailureSilent(failed, c) == failed

\* print(f"Failed to log frame for camera {idx}: {e}")
ReportLogFailure(failed, c) == failed \cup {c}

\* Variant: a failed log is retried.
AfterLogRetry(r) == IF r = "ok" THEN "check" ELSE "log"

\* Where the thread goes after channel.log: round the loop, or break.
AfterLog(r) == IF r = "ok" THEN "check" ELSE "stopped"

\* try: channel.log(img_msg) except Exception: print(...); break
Log(c) ==
    /\ ProcessAlive
    /\ wpc[c] = "log"
    /\ logged' = [logged EXCEPT ![c] = Append(@, img_msg[c])]
    /\ img_msg' = [img_msg EXCEPT ![c] = NoMsg]
    /\ \E r \in LogOutcomes(writer) :
        IF r = "ok"
        THEN /\ mcap' = Record(mcap, img_msg[c])
             /\ wpc' = [wpc EXCEPT ![c] = AfterLog(r)]
             /\ UNCHANGED <<log_failed, stop_event>>
        ELSE /\ log_failed' = ReportLogFailure(log_failed, c)
             /\ wpc' = [wpc EXCEPT ![c] = AfterLog(r)]
             /\ stop_event' = StopEventAfterLogFailure(stop_event)
             /\ UNCHANGED mcap
    /\ UNCHANGED <<dual, sup_pc, i, pipelines, appsinks, pstate, teardowns, errors,
                   writer, opens, closes, channels, threads, abandoned, interrupted,
                   exc, unexpected, exit_code, frame_seq_local, pulled, pull_raised>>

Supervisor ==
    \/ MakePipeline \/ OpenMcap \/ CreateChannels \/ StartThread \/ StartedThreads
    \/ WaitEnds \/ JoinReturns \/ JoinTimeout \/ WithExit \/ ExceptClause
    \/ TearDown

Worker(c) ==
    \/ LoopCheck(c) \/ PullRaises(c) \/ PullEmpty(c) \/ PullNoBuffer(c)
    \/ SkipNoBuffer(c) \/ PullFrame(c) \/ Sleep(c) \/ Log(c)

Next ==
    \/ Supervisor
    \/ KeyboardInterrupt
    \/ \E c \in Cams : Worker(c)

Spec == Init /\ [][Next]_vars

\* The main thread runs whenever it can; nothing is assumed of the capture
\* threads, of the sources or of when an interrupt arrives.
LiveSpec == Spec /\ WF_vars(Supervisor)

\* Each capture thread runs whenever it can, and its pull-sample returns;
\* nothing is assumed of the main thread.
ThreadFairSpec == Spec /\ \A c \in Cams : WF_vars(Worker(c))

(***************************************************************************)
(* Properties                                                              *)
(***************************************************************************)

Running(c) == wpc[c] \in {"check", "pull", "sleep", "no_buffer", "log"}

InFlight(c) == IF wpc[c] = "log" THEN 1 ELSE 0

\* The messages of camera c in the MCAP file, in file order.
OfCamera(c) ==
    LET Mine(m) == m.data[1] = c IN SelectSeq(mcap, Mine)

\* C1: every frame a thread pulled has exactly one channel.log attempt, or is
\* the one frame the thread is about to log: the k-th message handed to
\* channel.log carries the data of the k-th frame pulled, and the number of
\* frames pulled is the number of attempts plus the frame in flight.
C1_OneWriteAttemptPerFrame ==
    \A c \in Cams :
        /\ Len(pulled[c]) = Len(logged[c]) + InFlight(c)
        /\ \A k \in 1..Len(logged[c]) : logged[c][k].data = pulled[c][k].data
        /\ wpc[c] = "log" => img_msg[c].data = pulled[c][Len(pulled[c])].data

\* C1 witness: a camera's two frames had one attempt each, the second failed.
C1_Witness ==
    \E c \in Cams :
        /\ Len(pulled[c]) = 2
        /\ Len(logged[c]) = 2
        /\ c \in log_failed
        /\ wpc[c] = "stopped"

\* C2: the messages of one camera stand in the MCAP file in the order in
\* which their frames were pulled, each once: the k-th message of camera c in
\* the file carries the k-th frame camera c pulled.
C2_PerCameraPullOrder ==
    \A c \in Cams :
        LET m == OfCamera(c) IN
        /\ Len(m) <= Len(pulled[c])
        /\ \A k \in 1..Len(m) : m[k].data = pulled[c][k].data /\ m[k].topic = Topic(c)

\* C2 witness: two messages of one camera with one of the other in between.
C2_Witness ==
    /\ Len(mcap) = 3
    /\ mcap[1].data = <<camera_index, 1>>
    /\ mcap[2].data[1] = camera_index + 1
    /\ mcap[3].data = <<camera_index, 2>>

\* C3: a frame with a valid pts t gets the frame_id "pts:t", whatever its dts
\* and whatever the counter.
C3_PtsIdentifier ==
    \A c \in Cams :
        /\ \A k \in 1..Len(logged[c]) :
              pulled[c][k].pts # CLOCK_TIME_NONE =>
                  logged[c][k].frame_id = "pts:" \o ToString(pulled[c][k].pts)
        /\ (wpc[c] = "log" /\ pulled[c][Len(pulled[c])].pts # CLOCK_TIME_NONE) =>
              img_msg[c].frame_id = "pts:" \o ToString(pulled[c][Len(pulled[c])].pts)

\* C3 witness: after a frame without timestamps advanced the counter, a
\* frame with pts 1000 and a valid dts is logged as "pts:1000".
C3_Witness ==
    \E c \in Cams :
        /\ Len(logged[c]) >= 2
        /\ logged[c][1].frame_id = "seq:1"
        /\ pulled[c][2].pts = 1000
        /\ pulled[c][2].dts = 2000
        /\ logged[c][2].frame_id = "pts:1000"

\* C4: the j-th frame of a camera that has neither timestamp gets "seq:j",
\* counted over that camera's frames alone.
C4_SeqIdentifiers ==
    \A c \in Cams :
        \A k \in 1..Len(logged[c]) :
            Untimed(pulled[c][k]) =>
                logged[c][k].frame_id =
                    "seq:" \o ToString(Cardinality({j \in 1..k : Untimed(pulled[c][j])}))

\* C4 witness: camera 0 logs "seq:1", camera 1 logs "seq:1", and camera 0's
\* next frame is "seq:2".
C4_Witness ==
    /\ Len(mcap) = 3
    /\ mcap[1].data[1] = camera_index /\ mcap[1].frame_id = "seq:1"
    /\ mcap[2].data[1] = camera_index + 1 /\ mcap[2].frame_id = "seq:1"
    /\ mcap[3].data[1] = camera_index /\ mcap[3].frame_id = "seq:2"

C6_WriteFailureIsolated ==
    /\ [][\A a \in Cams :
            (wpc[a] = "log" /\ wpc'[a] = "stopped") =>
                /\ UNCHANGED <<supVars, mcap>>
                /\ \A b \in Cams \ {a} :
                      /\ wpc'[b] = wpc[b]
                      /\ frame_seq_local'[b] = frame_seq_local[b]
                      /\ img_msg'[b] = img_msg[b]
                      /\ logged'[b] = logged[b]]_vars
    /\ [](\A a \in log_failed : \A b \in Cams \ {a} :
            (Running(b) /\ ~interrupted) =>
                /\ writer = "open"
                /\ ~stop_event
                /\ sup_pc \in {"start_threads", "wait"})

\* C6 witness: camera 0's log failed and its thread ended, while camera 1's
\* thread is about to log a frame with the writer open.
C6_Witness ==
    /\ camera_index \in log_failed
    /\ wpc[camera_index] = "stopped"
    /\ wpc[camera_index + 1] = "log"
    /\ Len(mcap) >= 1
    /\ writer = "open"
    /\ sup_pc = "wait"

\* C7: open_mcap is called at most once, and if it failed no thread was
\* started, no sample pulled and no message logged, the main thread is past
\* the with block, and the process ends with a failure that was reported.
C7_JournalOpenFailure ==
    /\ opens <= 1
    /\ writer = "failed" =>
        /\ threads = <<>>
        /\ \A c \in Cams : wpc[c] = "not_started" /\ pulled[c] = <<>> /\ logged[c] = <<>>
        /\ mcap = <<>>
        /\ sup_pc \in {"except", "finally", "done"}
        /\ sup_pc = "done" => exit_code = 1 /\ unexpected

\* C7 witness: the pipelines were created, open_mcap failed, the process ended.
C7_Witness ==
    /\ writer = "failed"
    /\ sup_pc = "done"
    /\ Len(pipelines) = 2

\* C8: the writer is closed at most once; while the main thread is inside the
\* with block it is open; and once the main thread has left the block of a
\* writer that was opened, it has been closed exactly once.
C8_JournalClosedOnce ==
    /\ closes <= 1
    /\ sup_pc \in {"channels", "start_threads", "wait", "join", "with_exit"} =>
          writer = "open" /\ closes = 0
    /\ (opens = 1 /\ writer # "failed" /\ sup_pc \in {"except", "finally", "done"}) =>
          writer = "closed" /\ closes = 1

\* C8 witness: an exception inside the with block, and the process ended
\* with the writer closed once.
C8_Witness ==
    /\ sup_pc = "done"
    /\ exc = "Exception"
    /\ writer = "closed"
    /\ closes = 1

\* C8, the other paths: no thread at all, and an interrupt.
C8_WitnessNoWorker ==
    sup_pc = "done" /\ dual /\ Len(errors) = 2 /\ closes = 1 /\ exit_code = 0

C8_WitnessInterrupt ==
    sup_pc = "done" /\ interrupted /\ closes = 1 /\ abandoned # {}

\* C9: the joins happen with the signal set; a thread still alive when its
\* join returned is abandoned; and after an interrupt the main thread
\* reaches the end of the process, whatever the threads do.
C9_StopIsBounded ==
    /\ [](sup_pc = "join" => stop_event /\ interrupted)
    /\ []((sup_pc = "done" /\ interrupted) =>
            \A t \in Range(threads) : IsAlive(t) => t \in abandoned)
    /\ interrupted ~> (sup_pc = "done")

\* C9 witness: the process ended after an interrupt with a thread still
\* inside pull-sample.
C9_Witness ==
    /\ sup_pc = "done"
    /\ interrupted
    /\ \E c \in abandoned : wpc[c] = "pull"

\* C10: with the signal set, a thread that is in its idle wait goes to the
\* loop check only, and a thread at the loop check ends only: it pulls no
\* sample and logs no message.
C10_StopWhileIdle ==
    [][\A c \in Cams :
          (stop_event /\ wpc[c] \in {"sleep", "check"}) =>
              /\ wpc[c] = "sleep" => wpc'[c] \in {"sleep", "check"}
              /\ wpc[c] = "check" => wpc'[c] \in {"check", "stopped"}
              /\ pulled'[c] = pulled[c]
              /\ logged'[c] = logged[c]]_vars

\* C10 witness: the interrupt came while a thread was in its idle wait, and
\* the other thread has already ended at its loop check.
C10_Witness ==
    /\ stop_event
    /\ wpc[camera_index] = "sleep"
    /\ wpc[camera_index + 1] = "stopped"
    /\ sup_pc = "join"
    /\ log_failed = {}

\* C11: an interrupted session ends with status 0, and a session in which a
\* camera, the server or the writer failed to open ends with a non-zero
\* status.
C11_AnyStartupFailureFails ==
    sup_pc = "done" =>
        /\ interrupted => exit_code = 0
        /\ (errors # <<>> \/ exc # "none") => exit_code # 0

\* The exit status the program does have: an interrupted session has set the
\* signal, joined or abandoned every thread and ends with status 0; a session
\* whose server or writer failed to open ends with status 1 after "Unexpected
\* error" was printed; a camera that failed to open was reported, and by
\* itself leaves the status at 0.
ExitStatusOfSession ==
    sup_pc = "done" =>
        /\ interrupted =>
              /\ exit_code = 0
              /\ stop_event
              /\ \A t \in Range(threads) : ~IsAlive(t) \/ t \in abandoned
        /\ writer \in {"failed", "unopened"} => exit_code = 1 /\ unexpected
        /\ \A k \in Range(Indices) : pstate[k] = "none" => Count(errors, k) = 1
        /\ exit_code = 0 <=> exc = "none"

\* The only camera failed to open, and the session ended with status 0.
OnlyCameraFailedExitZero ==
    /\ sup_pc = "done"
    /\ ~dual
    /\ errors = <<camera_index>>
    /\ exit_code = 0

C13_DtsAndCounter ==
    \A c \in Cams :
        /\ frame_seq_local[c] =
              Cardinality({k \in 1..Len(pulled[c]) : Untimed(pulled[c][k])})
        /\ \A k \in 1..Len(logged[c]) :
              (pulled[c][k].pts = CLOCK_TIME_NONE /\ pulled[c][k].dts # CLOCK_TIME_NONE) =>
                  logged[c][k].frame_id = "dts:" \o ToString(pulled[c][k].dts)

\* C13 witness: a frame with a dts only between two frames without
\* timestamps: "seq:1", "dts:2000", "seq:2".
C13_Witness ==
    \E c \in Cams :
        /\ Len(logged[c]) = 3
        /\ logged[c][1].frame_id = "seq:1"
        /\ logged[c][2].frame_id = "dts:2000"
        /\ logged[c][3].frame_id = "seq:2"
        /\ frame_seq_local[c] = 2

\* C14: the step in which a thread's pull-sample raises, or its channel.log
\* fails, ends the thread; a thread that has ended stays ended, pulls no
\* frame and logs no message; and no thread is started twice.
C14_FailureIsPermanent ==
    [][\A c \in Cams :
          /\ (c \in pull_raised' /\ c \notin pull_raised) => wpc'[c] = "stopped"
          /\ (c \in log_failed' /\ c \notin log_failed) => wpc'[c] = "stopped"
          /\ wpc[c] = "stopped" =>
                /\ wpc'[c] = "stopped"
                /\ pulled'[c] = pulled[c]
                /\ logged'[c] = logged[c]
          /\ Count(threads', c) <= 1]_vars

\* C14 witness: one thread ended by a failed log and the other by a raising
\* pull-sample, while the main thread still waits.
C14_Witness ==
    /\ camera_index \in log_failed
    /\ camera_index + 1 \in pull_raised
    /\ \A c \in Cams : wpc[c] = "stopped"
    /\ sup_pc = "wait"

\* C15: whenever a thread has ended, its pipeline is closed (and the thread
\* takes no further step: see C14_FailureIsPermanent).
C15_StoppedImpliesClosed ==
    \A c \in Cams : wpc[c] = "stopped" => pstate[c] = "NULL"

\* What the program does have: a thread that has ended changes nothing of
\* its own any more; its pipeline is still PLAYING until the main thread's
\* finally clause, and is NULL once the process has ended.
StoppedIsTerminal ==
    /\ [][\A c \in Cams :
            wpc[c] = "stopped" =>
                /\ wpc'[c] = "stopped"
                /\ frame_seq_local'[c] = frame_seq_local[c]
                /\ img_msg'[c] = img_msg[c]]_vars
    /\ [](\A c \in Cams :
            wpc[c] = "stopped" =>
                /\ sup_pc # "done" => pstate[c] = "PLAYING"
                /\ sup_pc = "done" => pstate[c] = "NULL")

\* A thread has ended by a raising pull-sample while the other thread goes
\* on recording, and its pipeline is still PLAYING.
StoppedWhilePlaying ==
    /\ camera_index \in pull_raised
    /\ pstate[camera_index] = "PLAYING"
    /\ wpc[camera_index + 1] = "log"
    /\ sup_pc = "wait"

\* C16: once the signal is set, every running thread reaches the end of its
\* loop.
C16_EveryThreadStops ==
    \A c \in Cams : (stop_event /\ Running(c)) ~> (wpc[c] = "stopped")

\* What the program does have: once the signal is set, every running thread
\* reaches the end of its loop unless the process ends first (the main thread
\* does not wait for a thread longer than its join's second).
ThreadStopsOrProcessEnds ==
    \A c \in Cams : (stop_event /\ Running(c)) ~> (wpc[c] = "stopped" \/ ~ProcessAlive)

\* The process has ended while a thread it gave up waiting for was still
\* inside pull-sample.
EndedInsidePull ==
    \E c \in abandoned :
        /\ wpc[c] = "pull"
        /\ ~ProcessAlive

TopicName ==
    (camera_index :> "/camera/0/image/compressed")
        @@ (camera_index + 1 :> "/camera/1/image/compressed")

\* The part of the state that is camera c's own.
Own(c) == <<wpc[c], frame_seq_local[c], img_msg[c], pulled[c], logged[c], OfCamera(c)>>

\* C18: every message a thread builds or logs carries its own camera's data
\* and its own camera's topic; there is a channel only for a camera whose
\* pipeline was created; and a step of one thread leaves the other thread's
\* position, counter, messages and records in the file as they were.
C18_NoCrossCamera ==
    /\ [](\A c \in Cams :
            /\ \A k \in 1..Len(logged[c]) :
                  logged[c][k].topic = TopicName[c] /\ logged[c][k].data[1] = c
            /\ wpc[c] = "log" =>
                  img_msg[c].topic = TopicName[c] /\ img_msg[c].data[1] = c
            /\ \A k \in 1..Len(OfCamera(c)) : OfCamera(c)[k].topic = TopicName[c]
            /\ c \in DOMAIN channels => pstate[c] # "none" /\ channels[c] = TopicName[c])
    /\ [][\A a \in Cams :
            (Running(a) /\ wpc'[a] # wpc[a]) =>
                \A b \in Cams \ {a} : Own(b)' = Own(b)]_vars

\* C18 witness: of two cameras the second failed to open: there is one
\* channel, and the file holds messages under the first camera's topic.
C18_Witness ==
    /\ dual
    /\ errors = <<camera_index + 1>>
    /\ DOMAIN channels = {camera_index}
    /\ Len(mcap) = 2
    /\ \A k \in 1..Len(mcap) : mcap[k].topic = "/camera/0/image/compressed"

C20_NoBufferSkipped ==
    [][\A c \in Cams :
          (wpc'[c] = "no_buffer" \/ wpc[c] = "no_buffer") =>
              /\ wpc[c] = "no_buffer" => wpc'[c] \in {"no_buffer", "check"}
              /\ frame_seq_local'[c] = frame_seq_local[c]
              /\ pulled'[c] = pulled[c]
              /\ logged'[c] = logged[c]
              /\ img_msg'[c] = img_msg[c]
              /\ mcap' = mcap \/ wpc'[c] = wpc[c]]_vars

\* C20 witness: a thread that has logged a frame without timestamps holds a
\* sample without a buffer.
C20_Witness ==
    \E c \in Cams :
        /\ wpc[c] = "no_buffer"
        /\ Len(logged[c]) = 1
        /\ frame_seq_local[c] = 1

====
